---- MODULE Spec2Model ----
(***************************************************************************)
(* The crawl frontier (table to_insert), the visited set (table panoids)   *)
(* and the crawl loop of auto_walkthrough.py.                              *)
(*                                                                         *)
(* Coordinates are integers in units of 1e-4 degree.  A position is the    *)
(* tuple <<lat, long>>, as the Python tuple (lat, long).  None stands for  *)
(* Python's None and SQL's NULL.                                           *)
(***************************************************************************)
EXTENDS Integers, Sequences, FiniteSets, TLC

VARIABLES
    to_insert,      \* table to_insert: rows in heap order, [latitude, longitude, geom]
    panoids,        \* table panoids: rows in id order, [latitude, longitude, pano_id]
    downloads,      \* pano ids handed to run_streetview_downloader_single, in call order
    pc,             \* selenium_walkthrough: "init", "loop" (the while True), "done"
    url,            \* selenium_walkthrough's local url: the coordinates it points at, or NoUrl
    old_lat_long,   \* selenium_walkthrough's local old_lat_long
    chained_fail,   \* selenium_walkthrough's local chained_fail
    move,           \* selenium_walkthrough's local move
    iter,           \* selenium_walkthrough's local iter
    keytopress,     \* selenium_walkthrough's local keytopress
    current_url,    \* driver.current_url as parse_google_maps_url reads it: <<lat, long, panoid>>
    said,           \* the message the last pass of selenium_walkthrough printed for its branch
    op,             \* the last store operation applied on its own (observation only)
    txn,            \* the insert_db calls in flight, one per session sharing the database
    progress_file,  \* the JSON progress file of process_street_view_images, as it is on disk
    progress,       \* process_street_view_images's local progress['processed_images']
    remaining_images, \* process_street_view_images's local remaining_images still ahead
    running,        \* whether a run of process_street_view_images is inside its loop
    seen            \* the images the progress file has held, and the image the last step handled

vars == <<to_insert, panoids, downloads, pc, url, old_lat_long, chained_fail, move,
          iter, keytopress, current_url, said, op, txn,
          progress_file, progress, remaining_images, running, seen>>

storeVars == <<to_insert, panoids>>
ctlVars == <<downloads, pc, url, old_lat_long, chained_fail, move, iter, keytopress,
             current_url, said>>
imgVars == <<progress_file, progress, remaining_images, running, seen>>

-----------------------------------------------------------------------------
(* Bounds of the model *)

MaxSeed == 2        \* rows a seeding run loads into to_insert
MaxVisited == 2     \* rows panoids may hold
MaxImages == 4      \* image files the processed directory holds
MaxGrid == 6        \* half-width, in grid steps, of the grid of points in_nancy is applied to
MaxIter == 2        \* cap on the iteration counter iter

-----------------------------------------------------------------------------
(* Values *)

None == -1

\* (48.6930, 6.1855) and the points about 11 m and about 100 m north of it,
\* all inside the perimeter, and a point twice as far from the centre as
\* the boundary point (48.667770, 6.146822).
PosA == <<486930, 61855>>
PosB == <<486931, 61855>>
PosC == <<486939, 61855>>
PosOut == <<486424, 61081>>

Positions == {PosA, PosB, PosC, PosOut}

\* The road points a csv file may hold: the seeding step samples the roads
\* inside the perimeter.
Candidates == {PosA, PosB, PosC}

\* The pano id Street View shows at a position: one per position.
PanoOf(p) ==
    CASE p = PosA -> 1
      [] p = PosB -> 2
      [] p = PosC -> 3
      [] OTHER -> 4

\* Results of parse_google_maps_url: all three parsed, no coordinates in the
\* url (None, None, None), or coordinates without a pano id (lat, long, None).
ParseFailed == <<None, None, None>>
Parsed == {<<p[1], p[2], PanoOf(p)>> : p \in Positions} \cup {ParseFailed}

\* What the browser may show during a crawl: the street of PosA and PosB, a
\* place outside the perimeter, a url that does not parse, a url without
\* pano id.
Reports ==
    {<<p[1], p[2], PanoOf(p)>> : p \in {PosA, PosB, PosOut}}
        \cup {ParseFailed, <<PosB[1], PosB[2], None>>}

NoUrl == <<None, None>>
Placeholder == <<0, 0>>

ARROW_UP == "ARROW_UP"
ARROW_DOWN == "ARROW_DOWN"

-----------------------------------------------------------------------------
(* Geometry *)

latcenter_nancy == 486932
longcenter_nancy == 61855
latboundary_nancy == 486678
longboundary_nancy == 61468

\* R_nancy ** 2, with R_nancy the square root of this sum
R_nancy_sq ==
    (latcenter_nancy - latboundary_nancy) * (latcenter_nancy - latboundary_nancy)
        + (longboundary_nancy - longcenter_nancy) * (longboundary_nancy - longcenter_nancy)

\* A variant that compares with < instead of <=
in_nancy_strict(lat, long) ==
    (long - longcenter_nancy) * (long - longcenter_nancy)
        + (lat - latcenter_nancy) * (lat - latcenter_nancy) < R_nancy_sq

in_nancy(lat, long) ==
    (long - longcenter_nancy) * (long - longcenter_nancy)
        + (lat - latcenter_nancy) * (lat - latcenter_nancy) <= R_nancy_sq

\* ST_DWithin(a::geography, b::geography, r): geodesic distance at most r
\* metres.  Around Nancy 1e-4 degree of latitude is about 11 m and 1e-4
\* degree of longitude about 7 m.
ST_DWithin(lat1, long1, lat2, long2, r) ==
    (11 * (lat1 - lat2)) * (11 * (lat1 - lat2))
        + (7 * (long1 - long2)) * (7 * (long1 - long2)) <= r * r

\* a <-> b on geometry: planar distance in degrees (compared squared)
KnnDistance(lat1, long1, lat2, long2) ==
    (lat1 - lat2) * (lat1 - lat2) + (long1 - long2) * (long1 - long2)

PruneRadius == 30

-----------------------------------------------------------------------------
(* copy_csv_to_insert_table and setup_spatial_columns *)

\* The csv files a seeding run may load: up to MaxSeed points, in file order.
Seeds == UNION {[1..n -> Candidates] : n \in 0..MaxSeed}

\* TRUNCATE TABLE to_insert, then one INSERT (latitude, longitude) per csv
\* row in file order; geom is left NULL.
copy_csv_to_insert_table(points) ==
    [i \in 1..Len(points) |->
        [latitude |-> points[i][1], longitude |-> points[i][2], geom |-> FALSE]]

\* UPDATE to_insert SET geom = ST_SetSRID(ST_MakePoint(longitude, latitude), 4326)
setup_spatial_columns(ti) ==
    [i \in 1..Len(ti) |-> [ti[i] EXCEPT !.geom = TRUE]]

-----------------------------------------------------------------------------
(* get_starting_coordinates *)

\* A variant that answers with the (0, 0) placeholder of set_url instead of
\* (None, None) when it has no row to return.
get_starting_coordinates_placeholder(ti, fault, k) ==
    IF fault \/ ti = <<>>
    THEN <<0, 0>>
    ELSE <<ti[k].latitude, ti[k].longitude>>

\* SELECT latitude, longitude FROM to_insert LIMIT 1 has no ORDER BY: the
\* database may return any row.  fault: the connection or the query raised.
\* The DELETE of the row read is inside a string literal and never runs, so
\* the table is left as it was.
get_starting_coordinates(ti, fault, k) ==
    IF fault \/ ti = <<>>
    THEN <<None, None>>
    ELSE <<ti[k].latitude, ti[k].longitude>>

\* The rows LIMIT 1 may return (row 0: there is none)
LimitOne(ti) == IF ti = <<>> THEN {0} ELSE 1..Len(ti)

create_streetview_url(latitude, longitude) == <<latitude, longitude>>

-----------------------------------------------------------------------------
(* insert_db *)

\* A variant whose WHERE clause takes the radius ten times too large
NearRows_wide(ti, latitude, longitude) ==
    {i \in 1..Len(ti) :
        /\ ti[i].geom
        /\ latitude # None
        /\ longitude # None
        /\ ST_DWithin(ti[i].latitude, ti[i].longitude, latitude, longitude, 300)}

\* Rows of to_insert the WHERE clause of find_nearest_query keeps: a NULL
\* geom or a NULL argument makes ST_DWithin NULL and the row is dropped.
NearRows(ti, latitude, longitude) ==
    {i \in 1..Len(ti) :
        /\ ti[i].geom
        /\ latitude # None
        /\ longitude # None
        /\ ST_DWithin(ti[i].latitude, ti[i].longitude, latitude, longitude, PruneRadius)}

\* ORDER BY geom <-> point LIMIT 1: a row at the least planar distance
NearestRows(ti, latitude, longitude) ==
    {i \in NearRows(ti, latitude, longitude) :
        \A j \in NearRows(ti, latitude, longitude) :
            KnnDistance(ti[i].latitude, ti[i].longitude, latitude, longitude)
                <= KnnDistance(ti[j].latitude, ti[j].longitude, latitude, longitude)}

\* cursor.fetchone(): (nearest_lat, nearest_lon) of a nearest row, or None
NoRow == <<None, None>>
fetch_nearest(ti, latitude, longitude) ==
    IF NearestRows(ti, latitude, longitude) = {}
    THEN {NoRow}
    ELSE {<<ti[i].latitude, ti[i].longitude>> : i \in NearestRows(ti, latitude, longitude)}

\* A variant whose DELETE forgets the latitude: WHERE longitude = %s
delete_query_longitude(ti, nearest_lat, nearest_lon) ==
    SelectSeq(ti, LAMBDA r : r.longitude # nearest_lon)

\* DELETE FROM to_insert WHERE latitude = %s AND longitude = %s
delete_query(ti, nearest_lat, nearest_lon) ==
    SelectSeq(ti, LAMBDA r : ~(r.latitude = nearest_lat /\ r.longitude = nearest_lon))

\* INSERT INTO panoids (latitude, longitude, pano_id, geom): the table has
\* an id SERIAL PRIMARY KEY and no other key, so no row is ever refused as a
\* duplicate.
insert_panoids(pan, latitude, longitude, pano_id) ==
    Append(pan, [latitude |-> latitude, longitude |-> longitude, pano_id |-> pano_id])

Faults == {"none", "connect", "insert"}

\* The whole of insert_db.  nearest_point is what fetchone() returned.
\*   fault "connect": a psycopg2.Error before the first conn.commit()
\*       (connect, SELECT or DELETE): rollback, return False.
\*   fault "insert": a psycopg2.Error at the INSERT or the second
\*       conn.commit(): the DELETE is already committed, return False.
\*   latitude None: no row is near, and formatting the "No points found"
\*       message with {latitude:.6f} raises TypeError, which insert_db does
\*       not catch.  (A NULL latitude reaching the INSERT would violate NOT
\*       NULL, a psycopg2.Error.)
insert_db(ti, pan, latitude, longitude, pano_id, fault, nearest_point) ==
    LET pruned == IF nearest_point = NoRow
                  THEN ti
                  ELSE delete_query(ti, nearest_point[1], nearest_point[2])
    IN  IF fault = "connect"
        THEN [to_insert |-> ti, panoids |-> pan, ret |-> "False"]
        ELSE IF nearest_point = NoRow /\ (latitude = None \/ longitude = None)
        THEN [to_insert |-> ti, panoids |-> pan, ret |-> "TypeError"]
        ELSE IF fault = "insert" \/ latitude = None \/ longitude = None
        THEN [to_insert |-> pruned, panoids |-> pan, ret |-> "False"]
        ELSE [to_insert |-> pruned,
              panoids |-> insert_panoids(pan, latitude, longitude, pano_id),
              ret |-> "True"]

-----------------------------------------------------------------------------
(* Initial values *)

OpNone ==
    [name |-> "none", lat |-> None, long |-> None, pano_id |-> None, ret |-> "none",
     fault |-> "none", removed |-> 0, k |-> 0, notok |-> FALSE, again |-> FALSE,
     before |-> 0]

CtlIdle ==
    /\ downloads = <<>>
    /\ pc = "init"
    /\ url = NoUrl
    /\ old_lat_long = Placeholder
    /\ chained_fail = 0
    /\ move = FALSE
    /\ iter = 0
    /\ keytopress = ARROW_UP
    /\ current_url = ParseFailed
    /\ said = ""

NoProgressFile == [state |-> "absent", processed_images |-> <<>>]
NoImage == 0

ImgIdle ==
    /\ progress_file = NoProgressFile
    /\ progress = <<>>
    /\ remaining_images = <<>>
    /\ running = FALSE
    /\ seen = [recorded |-> {}, image |-> NoImage, outcome |-> "none"]

-----------------------------------------------------------------------------
(* set_url and the reseed that precedes it *)

\* set_url(driver, actions, url).  landing is what parse_google_maps_url
\* reads once driver.get(url) has loaded, after_click what the browser shows
\* once the click that re-arms the keyboard shortcuts is done.  raised: an
\* exception left set_url (driver.get(None); the TypeError of insert_db; the
\* TypeError of run_streetview_downloader_single(None), whose command list
\* cannot be joined).  set_url itself always returns (0, 0), 0.
set_url(ti, pan, dl, u, landing, fault, nearest_point, after_click) ==
    LET res == insert_db(ti, pan, landing[1], landing[2], landing[3], fault, nearest_point)
    IN  IF u = NoUrl
        THEN [to_insert |-> ti, panoids |-> pan, downloads |-> dl,
              current_url |-> ParseFailed, raised |-> TRUE, ret |-> "none"]
        ELSE IF res.ret = "TypeError"
        THEN [to_insert |-> res.to_insert, panoids |-> res.panoids, downloads |-> dl,
              current_url |-> landing, raised |-> TRUE, ret |-> res.ret]
        ELSE IF res.ret = "True" /\ landing[3] = None
        THEN [to_insert |-> res.to_insert, panoids |-> res.panoids, downloads |-> dl,
              current_url |-> landing, raised |-> TRUE, ret |-> res.ret]
        ELSE [to_insert |-> res.to_insert, panoids |-> res.panoids,
              downloads |-> IF res.ret = "True" THEN Append(dl, landing[3]) ELSE dl,
              current_url |-> after_click, raised |-> FALSE, ret |-> res.ret]

\* coordinates = get_starting_coordinates()
\* if coordinates[0] is not None and coordinates[1] is not None:
\*     url = create_streetview_url(*coordinates)
\* old_lat_long, chained_fail = set_url(driver, actions, url)
reseed(ti, pan, dl, u, popfault, k, landing, fault, nearest_point, after_click) ==
    LET coordinates == get_starting_coordinates(ti, popfault, k)
        found == coordinates[1] # None /\ coordinates[2] # None
        url1 == IF found THEN create_streetview_url(coordinates[1], coordinates[2]) ELSE u
        r == set_url(ti, pan, dl, url1, landing, fault, nearest_point, after_click)
    IN  [url |-> url1, to_insert |-> r.to_insert, panoids |-> r.panoids,
         downloads |-> r.downloads, current_url |-> r.current_url,
         raised |-> r.raised, ret |-> r.ret,
         pop |-> IF found THEN "ok" ELSE IF ti = <<>> THEN "empty" ELSE "fault"]

-----------------------------------------------------------------------------
(* selenium_walkthrough *)

\* Every way a call of insert_db may end
InsertOutcomes(ti, pan, latitude, longitude, pano_id) ==
    {insert_db(ti, pan, latitude, longitude, pano_id, fault, nearest_point) :
        fault \in Faults, nearest_point \in fetch_nearest(ti, latitude, longitude)}

\* Every way a call of set_url on url u may end
SetUrlOutcomes(ti, pan, dl, u) ==
    UNION {{set_url(ti, pan, dl, u, landing, fault, nearest_point, after_click) :
                fault \in Faults,
                nearest_point \in fetch_nearest(ti, landing[1], landing[2]),
                after_click \in Reports} :
           landing \in Reports}

\* Every way a reseed from url u may end
ReseedOutcomes(ti, pan, dl, u) ==
    UNION {{reseed(ti, pan, dl, u, popfault, k, landing, fault, nearest_point, after_click) :
                popfault \in BOOLEAN, k \in LimitOne(ti), fault \in Faults,
                nearest_point \in fetch_nearest(ti, landing[1], landing[2]),
                after_click \in Reports} :
           landing \in Reports}

\* The url a user may pass on the command line: a Street View url of some
\* position.
UserUrls == {<<PosA[1], PosA[2]>>}

\* The files the crawl is started on: the controller never reads the order
\* of the rows (LIMIT 1 without ORDER BY, DELETE by value), so one file per
\* set of points is drawn, in increasing latitude.
Frontiers ==
    {points \in Seeds :
        \A i, j \in 1..Len(points) : i < j => points[i][1] < points[j][1]}

\* A database as the seeding step and setup_spatial_columns leave it, with
\* no visited node yet.
Init ==
    /\ \E points \in Frontiers :
          to_insert = setup_spatial_columns(copy_csv_to_insert_table(points))
    /\ panoids = <<>>
    /\ op = OpNone
    /\ txn = <<>>
    /\ CtlIdle
    /\ ImgIdle

\* Lines 462-548: a break or a caught exception leaves the loop, the finally
\* block prints the statistics and selenium_walkthrough returns.  Its locals
\* and the browser are gone: they take their idle values, so a guard on
\* pc' = "loop" belongs in any statement about how a step changes them.
Returned ==
    /\ pc' = "done"
    /\ url' = NoUrl
    /\ old_lat_long' = Placeholder
    /\ chained_fail' = 0
    /\ move' = FALSE
    /\ iter' = 0
    /\ keytopress' = ARROW_UP
    /\ current_url' = ParseFailed

\* A variant of the reseed in which set_url hands chained_fail back as it was
Reseeded_keepsfail(r, iter1, keytopress1) ==
    /\ Len(r.panoids) <= MaxVisited
    /\ to_insert' = r.to_insert
    /\ panoids' = r.panoids
    /\ downloads' = r.downloads
    /\ IF r.raised
       THEN Returned
       ELSE /\ pc' = "loop"
            /\ url' = r.url
            /\ current_url' = r.current_url
            /\ old_lat_long' = Placeholder
            /\ chained_fail' = chained_fail
            /\ move' = FALSE
            /\ iter' = iter1
            /\ keytopress' = keytopress1
    /\ UNCHANGED <<op, txn, imgVars>>

\* A variant of the reseed whose branch forgets to assign keytopress
Reseeded_samekey(r, iter1, keytopress1) ==
    /\ Len(r.panoids) <= MaxVisited
    /\ to_insert' = r.to_insert
    /\ panoids' = r.panoids
    /\ downloads' = r.downloads
    /\ IF r.raised
       THEN Returned
       ELSE /\ pc' = "loop"
            /\ url' = r.url
            /\ current_url' = r.current_url
            /\ old_lat_long' = Placeholder
            /\ chained_fail' = 0
            /\ move' = FALSE
            /\ iter' = iter1
            /\ keytopress' = keytopress
    /\ UNCHANGED <<op, txn, imgVars>>

\* The effect of the reseed r, followed by what the branch of the loop that
\* made it assigns: old_lat_long, chained_fail = set_url(...); move = False;
\* then iter and keytopress as the branch sets them.  An exception raised in
\* set_url ends the session: caught at line 466 at the start, and at line 462
\* in the loop.
Reseeded(r, iter1, keytopress1) ==
    /\ Len(r.panoids) <= MaxVisited
    /\ to_insert' = r.to_insert
    /\ panoids' = r.panoids
    /\ downloads' = r.downloads
    /\ IF r.raised
       THEN Returned
       ELSE /\ pc' = "loop"
            /\ url' = r.url
            /\ current_url' = r.current_url
            /\ old_lat_long' = Placeholder
            /\ chained_fail' = 0
            /\ move' = FALSE
            /\ iter' = iter1
            /\ keytopress' = keytopress1
    /\ UNCHANGED <<op, txn, imgVars>>

\* Lines 351-399: the start, up to the first set_url.  With no url and no
\* candidate, driver.get(None) raises and the outer handler ends the session.
Start ==
    /\ pc = "init"
    /\ \/ \E r \in ReseedOutcomes(to_insert, panoids, downloads, NoUrl) :
            Reseeded(r, iter, keytopress)
       \/ \E u \in UserUrls :
            \E r \in SetUrlOutcomes(to_insert, panoids, downloads, u) :
                Reseeded(r @@ [url |-> u, pop |-> "none"], iter, keytopress)
    /\ said' = "Opening Google..."

\* What parse_google_maps_url(driver.current_url) gives at the top of an
\* iteration: with move set the key press has moved the browser anywhere.
StepReports == IF move THEN Reports ELSE {current_url}

\* Lines 414-422: "cannot go forward"
LoopStall ==
    /\ pc = "loop"
    /\ iter < MaxIter
    /\ \E rep \in StepReports :
        /\ <<rep[1], rep[2]>> = old_lat_long
        /\ \E r \in ReseedOutcomes(to_insert, panoids, downloads, url) :
            Reseeded(r, iter + 1, keytopress)
    /\ said' = "cannot go forward"

\* Lines 424-426: "Parsing url problem"
LoopParseProblem ==
    /\ pc = "loop"
    /\ \E rep \in StepReports :
        /\ <<rep[1], rep[2]>> # old_lat_long
        /\ rep[1] = None \/ rep[2] = None \/ rep[3] = None
    /\ Returned
    /\ said' = "Parsing url problem"
    /\ UNCHANGED <<storeVars, downloads, op, txn, imgVars>>

\* Lines 427-434: "Leaving Nancy and setup perimeter"
LoopOutOfNancy ==
    /\ pc = "loop"
    /\ \E rep \in StepReports :
        /\ <<rep[1], rep[2]>> # old_lat_long
        /\ rep[1] # None /\ rep[2] # None /\ rep[3] # None
        /\ ~in_nancy(rep[1], rep[2])
        /\ \E r \in ReseedOutcomes(to_insert, panoids, downloads, url) :
            Reseeded(r, iter, keytopress)
    /\ said' = "Leaving Nancy and setup perimeter"

\* A variant of the checks that leaves out the test of the perimeter
Committable_nofence(rep) ==
    /\ <<rep[1], rep[2]>> # old_lat_long
    /\ rep[1] # None /\ rep[2] # None /\ rep[3] # None

\* The report passes the three checks made before insert_db is called
Committable(rep) ==
    /\ <<rep[1], rep[2]>> # old_lat_long
    /\ rep[1] # None /\ rep[2] # None /\ rep[3] # None
    /\ in_nancy(rep[1], rep[2])

\* A variant of the rejected insert whose threshold test is chained_fail > 3
LoopInsertFail_late ==
    /\ pc = "loop"
    /\ chained_fail + 1 <= 3
    /\ \E rep \in StepReports :
        /\ Committable(rep)
        /\ \E res \in InsertOutcomes(to_insert, panoids, rep[1], rep[2], rep[3]) :
            /\ res.ret = "False"
            /\ to_insert' = res.to_insert
            /\ panoids' = res.panoids
            /\ current_url' = rep
            /\ move' = TRUE
            /\ chained_fail' = chained_fail + 1
            /\ said' = "already seen or db problem"
            /\ UNCHANGED <<downloads, pc, url, old_lat_long, iter, keytopress, op, txn, imgVars>>

\* A variant of the rejected insert that falls through to
\* old_lat_long = lat,long instead of continuing
LoopInsertFail_moves ==
    /\ pc = "loop"
    /\ chained_fail + 1 <= 2
    /\ \E rep \in StepReports :
        /\ Committable(rep)
        /\ \E res \in InsertOutcomes(to_insert, panoids, rep[1], rep[2], rep[3]) :
            /\ res.ret = "False"
            /\ to_insert' = res.to_insert
            /\ panoids' = res.panoids
            /\ current_url' = rep
            /\ move' = TRUE
            /\ chained_fail' = chained_fail + 1
            /\ old_lat_long' = <<rep[1], rep[2]>>
            /\ said' = "already seen or db problem"
            /\ UNCHANGED <<downloads, pc, url, iter, keytopress, op, txn, imgVars>>

\* Lines 436-438, 454-455: "already seen or db problem", no more than twice
\* in a row: the loop goes on from where the browser is.
LoopInsertFail ==
    /\ pc = "loop"
    /\ chained_fail + 1 <= 2
    /\ \E rep \in StepReports :
        /\ Committable(rep)
        /\ \E res \in InsertOutcomes(to_insert, panoids, rep[1], rep[2], rep[3]) :
            /\ res.ret = "False"
            /\ to_insert' = res.to_insert
            /\ panoids' = res.panoids
            /\ current_url' = rep
            /\ move' = TRUE
            /\ chained_fail' = chained_fail + 1
            /\ said' = "already seen or db problem"
            /\ UNCHANGED <<downloads, pc, url, old_lat_long, iter, keytopress, op, txn, imgVars>>

\* Lines 436-453: "too much fail aborting trying new url"
LoopTooMuchFail ==
    /\ pc = "loop"
    /\ iter < MaxIter
    /\ chained_fail + 1 > 2
    /\ \E rep \in StepReports :
        /\ Committable(rep)
        /\ \E res \in InsertOutcomes(to_insert, panoids, rep[1], rep[2], rep[3]) :
            /\ res.ret = "False"
            /\ \E r \in ReseedOutcomes(res.to_insert, res.panoids, downloads, url) :
                Reseeded(r, iter + 1,
                         IF keytopress = ARROW_DOWN THEN ARROW_UP ELSE ARROW_DOWN)
    /\ said' = "too much fail aborting trying new url"

\* A variant of the accepted insert that leaves chained_fail as it is
LoopAccept_keepsfail ==
    /\ pc = "loop"
    /\ iter < MaxIter
    /\ \E rep \in StepReports :
        /\ Committable(rep)
        /\ \E res \in InsertOutcomes(to_insert, panoids, rep[1], rep[2], rep[3]) :
            /\ res.ret = "True"
            /\ Len(res.panoids) <= MaxVisited
            /\ to_insert' = res.to_insert
            /\ panoids' = res.panoids
            /\ downloads' = Append(downloads, rep[3])
            /\ current_url' = rep
            /\ move' = TRUE
            /\ old_lat_long' = <<rep[1], rep[2]>>
            /\ iter' = iter + 1
            /\ said' = "Successfully inserted record"
            /\ UNCHANGED <<pc, url, keytopress, chained_fail, op, txn, imgVars>>

\* Lines 436, 456-460: the insert succeeded
LoopAccept ==
    /\ pc = "loop"
    /\ iter < MaxIter
    /\ \E rep \in StepReports :
        /\ Committable(rep)
        /\ \E res \in InsertOutcomes(to_insert, panoids, rep[1], rep[2], rep[3]) :
            /\ res.ret = "True"
            /\ Len(res.panoids) <= MaxVisited
            /\ to_insert' = res.to_insert
            /\ panoids' = res.panoids
            /\ downloads' = Append(downloads, rep[3])
            /\ current_url' = rep
            /\ move' = TRUE
            /\ old_lat_long' = <<rep[1], rep[2]>>
            /\ iter' = iter + 1
            /\ chained_fail' = 0
            /\ said' = "Successfully inserted record"
            /\ UNCHANGED <<pc, url, keytopress, op, txn, imgVars>>

\* A variant of the handler of line 462 without its break: the loop goes on
LoopBrowserClosed_continues ==
    /\ pc = "loop"
    /\ said' = "Browser interaction failed (browser might be closed)"
    /\ UNCHANGED <<storeVars, downloads, pc, url, old_lat_long, chained_fail, move,
                   iter, keytopress, current_url, op, txn, imgVars>>

\* Lines 462-464: the browser was closed, send_keys or current_url raises
LoopBrowserClosed ==
    /\ pc = "loop"
    /\ Returned
    /\ said' = "Browser interaction failed (browser might be closed)"
    /\ UNCHANGED <<storeVars, downloads, op, txn, imgVars>>

Next ==
    \/ Start
    \/ LoopStall
    \/ LoopParseProblem
    \/ LoopOutOfNancy
    \/ LoopInsertFail
    \/ LoopTooMuchFail
    \/ LoopAccept
    \/ LoopBrowserClosed

Spec == Init /\ [][Next]_vars

-----------------------------------------------------------------------------
(* The store operations applied on their own, in any order, to one database *)

StoreInit ==
    /\ to_insert = <<>>
    /\ panoids = <<>>
    /\ op = OpNone
    /\ txn = <<>>
    /\ CtlIdle
    /\ ImgIdle

\* The insert_db call with these arguments directly follows one recorded in
\* o for the same position, and the prune step ran in both.
RepeatsPrune(o, latitude, longitude, fault) ==
    /\ o.name = "commit"
    /\ o.fault # "connect"
    /\ fault # "connect"
    /\ latitude # None
    /\ o.lat = latitude
    /\ o.long = longitude

\* copy_csv_to_insert_table(csv_file_path)
StoreSeed ==
    \E points \in Seeds :
        /\ to_insert' = copy_csv_to_insert_table(points)
        /\ op' = [OpNone EXCEPT !.name = "seed"]
        /\ UNCHANGED <<panoids, txn, ctlVars, imgVars>>

\* setup_spatial_columns()
StoreSpatial ==
    /\ to_insert' = setup_spatial_columns(to_insert)
    /\ op' = [OpNone EXCEPT !.name = "spatial", !.notok = op.notok]
    /\ UNCHANGED <<panoids, txn, ctlVars, imgVars>>

\* get_starting_coordinates()
StorePop ==
    \E fault \in BOOLEAN, k \in LimitOne(to_insert) :
        LET coordinates == get_starting_coordinates(to_insert, fault, k)
            ok == coordinates[1] # None /\ coordinates[2] # None
        IN  /\ op' = [OpNone EXCEPT !.name = "pop",
                                    !.lat = coordinates[1],
                                    !.long = coordinates[2],
                                    !.ret = IF ok THEN "ok" ELSE "None",
                                    !.k = IF ok THEN k ELSE 0,
                                    !.notok = op.notok \/ ~ok]
            /\ UNCHANGED <<storeVars, txn, ctlVars, imgVars>>

\* insert_db(latitude, longitude, pano_id)
StoreCommit ==
    \E r \in Parsed, fault \in Faults :
        \E nearest_point \in fetch_nearest(to_insert, r[1], r[2]) :
            LET res == insert_db(to_insert, panoids, r[1], r[2], r[3], fault, nearest_point)
            IN  /\ Len(panoids) < MaxVisited
                /\ to_insert' = res.to_insert
                /\ panoids' = res.panoids
                /\ op' = [OpNone EXCEPT !.name = "commit",
                                        !.lat = r[1],
                                        !.long = r[2],
                                        !.pano_id = r[3],
                                        !.ret = res.ret,
                                        !.fault = fault,
                                        !.removed = Len(to_insert) - Len(res.to_insert),
                                        !.notok = op.notok,
                                        !.again = RepeatsPrune(op, r[1], r[2], fault),
                                        !.before =
                                            IF RepeatsPrune(op, r[1], r[2], fault)
                                            THEN op.removed
                                            ELSE 0]
                /\ UNCHANGED <<txn, ctlVars, imgVars>>

StoreNext == StoreSeed \/ StoreSpatial \/ StorePop \/ StoreCommit

SpecStore == StoreInit /\ [][StoreNext]_vars

-----------------------------------------------------------------------------
(* Two crawl sessions calling insert_db on one database, statement by
   statement.  Each connection runs at PostgreSQL's default READ COMMITTED
   level: a statement sees what was committed before it started. *)

Sessions == {1, 2}

\* The positions the two sessions commit
ConcArgs == {<<p[1], p[2], PanoOf(p)>> : p \in {PosA, PosB}}

TxnIdle ==
    [pc |-> "idle", latitude |-> None, longitude |-> None, pano_id |-> None,
     nearest_point |-> NoRow, ret |-> "none"]

ConcInit ==
    /\ \E points \in Frontiers :
          to_insert = setup_spatial_columns(copy_csv_to_insert_table(points))
    /\ panoids = <<>>
    /\ op = OpNone
    /\ txn = [s \in Sessions |-> TxnIdle]
    /\ CtlIdle
    /\ ImgIdle

\* Lines 134-152: connect, find_nearest_query, fetchone
ConcSelect(s) ==
    /\ txn[s].pc = "idle"
    /\ \E r \in ConcArgs :
        \E nearest_point \in fetch_nearest(to_insert, r[1], r[2]) :
            txn' = [txn EXCEPT ![s] = [pc |-> "selected", latitude |-> r[1],
                                       longitude |-> r[2], pano_id |-> r[3],
                                       nearest_point |-> nearest_point, ret |-> "none"]]
    /\ UNCHANGED <<storeVars, op, ctlVars, imgVars>>

\* Lines 154-173: delete_query when a row was fetched, then conn.commit()
ConcPrune(s) ==
    /\ txn[s].pc = "selected"
    /\ to_insert' =
         IF txn[s].nearest_point = NoRow
         THEN to_insert
         ELSE delete_query(to_insert, txn[s].nearest_point[1], txn[s].nearest_point[2])
    /\ txn' = [txn EXCEPT ![s].pc = "pruned"]
    /\ UNCHANGED <<panoids, op, ctlVars, imgVars>>

\* Lines 175-183: INSERT INTO panoids, conn.commit(), return True
ConcInsert(s) ==
    /\ txn[s].pc = "pruned"
    /\ panoids' = insert_panoids(panoids, txn[s].latitude, txn[s].longitude, txn[s].pano_id)
    /\ txn' = [txn EXCEPT ![s].pc = "returned", ![s].ret = "True"]
    /\ UNCHANGED <<to_insert, op, ctlVars, imgVars>>

\* Lines 185-189: a psycopg2.Error at any statement: rollback of what is not
\* yet committed, return False
ConcError(s) ==
    /\ txn[s].pc \in {"selected", "pruned"}
    /\ txn' = [txn EXCEPT ![s].pc = "returned", ![s].ret = "False"]
    /\ UNCHANGED <<storeVars, op, ctlVars, imgVars>>

ConcNext ==
    \E s \in Sessions : ConcSelect(s) \/ ConcPrune(s) \/ ConcInsert(s) \/ ConcError(s)

SpecConc == ConcInit /\ [][ConcNext]_vars

-----------------------------------------------------------------------------
(* in_nancy applied to the points of a grid around the centre.  The grid
   steps are chosen so that the centre, the boundary point of R_nancy and the
   point twice as far from the centre are grid points. *)

LatStep == (latcenter_nancy - latboundary_nancy) \div 2
LongStep == (longcenter_nancy - longboundary_nancy) \div 3

FenceGrid ==
    {<<latcenter_nancy + i * LatStep, longcenter_nancy + j * LongStep>> :
        i \in -MaxGrid..MaxGrid, j \in -MaxGrid..MaxGrid}

FenceInit ==
    /\ to_insert = <<>>
    /\ panoids = <<>>
    /\ op = OpNone
    /\ txn = <<>>
    /\ CtlIdle
    /\ ImgIdle

\* in_nancy(lat, long)
FenceCheck ==
    \E p \in FenceGrid :
        /\ op' = [OpNone EXCEPT !.name = "in_nancy",
                                !.lat = p[1],
                                !.long = p[2],
                                !.ret = IF in_nancy(p[1], p[2]) THEN "True" ELSE "False"]
        /\ UNCHANGED <<storeVars, txn, ctlVars, imgVars>>

FenceNext == FenceCheck

SpecFence == FenceInit /\ [][FenceNext]_vars

-----------------------------------------------------------------------------
(* delete_close_points_from_to_insert, applied to any content of the two
   tables *)

\* Rows of to_insert the EXISTS clause keeps: some row of panoids lies
\* within distance_threshold_m of them (a NULL geom drops the row).  insert_db
\* always stores a geom in panoids.
CloseRows(ti, pan, distance_threshold_m) ==
    {i \in 1..Len(ti) :
        /\ ti[i].geom
        /\ \E j \in 1..Len(pan) :
              ST_DWithin(ti[i].latitude, ti[i].longitude,
                         pan[j].latitude, pan[j].longitude, distance_threshold_m)}

\* The whole function.  fault: connect or a query raised.
\*   dry_run: count_query gives the count, which is printed; sample_query
\*       then has two %s placeholders and is executed with the one-element
\*       tuple (distance_threshold_m,), so cursor.execute raises; the
\*       except Exception branch rolls back and returns 0.
\*   otherwise: delete_query, commit, return cursor.rowcount.
delete_close_points_from_to_insert(ti, pan, distance_threshold_m, dry_run, fault) ==
    LET close == CloseRows(ti, pan, distance_threshold_m)
    IN  IF fault
        THEN [to_insert |-> ti, printed |-> None, ret |-> 0]
        ELSE IF dry_run
        THEN [to_insert |-> ti, printed |-> Cardinality(close), ret |-> 0]
        ELSE [to_insert |-> [i \in 1..(Len(ti) - Cardinality(close)) |->
                                ti[CHOOSE k \in 1..Len(ti) :
                                      /\ k \notin close
                                      /\ Cardinality({m \in 1..k : m \notin close}) = i]],
              printed |-> Cardinality(close),
              ret |-> Cardinality(close)]

\* The distance thresholds of the calls: the default and the prune radius
Thresholds == {10, PruneRadius}

\* The rows the crawl may have stored in panoids
VisitedRows ==
    {[latitude |-> p[1], longitude |-> p[2], pano_id |-> PanoOf(p)] : p \in Candidates}

MaintInit ==
    /\ \E points \in Seeds :
          \/ to_insert = copy_csv_to_insert_table(points)
          \/ to_insert = setup_spatial_columns(copy_csv_to_insert_table(points))
    /\ panoids \in UNION {[1..n -> VisitedRows] : n \in 0..MaxVisited}
    /\ op = OpNone
    /\ txn = <<>>
    /\ CtlIdle
    /\ ImgIdle

\* delete_close_points_from_to_insert(distance_threshold_m, dry_run)
MaintDeleteClose ==
    \E distance_threshold_m \in Thresholds, dry_run \in BOOLEAN, fault \in BOOLEAN :
        LET res == delete_close_points_from_to_insert(to_insert, panoids,
                                                      distance_threshold_m, dry_run, fault)
        IN  /\ to_insert' = res.to_insert
            /\ op' = [name |-> "delete_close_points_from_to_insert",
                      distance_threshold_m |-> distance_threshold_m,
                      dry_run |-> dry_run,
                      fault |-> fault,
                      printed |-> res.printed,
                      ret |-> res.ret,
                      before |-> to_insert]
            /\ UNCHANGED <<panoids, txn, ctlVars, imgVars>>

MaintNext == MaintDeleteClose

SpecMaint == MaintInit /\ [][MaintNext]_vars

-----------------------------------------------------------------------------
(* process_street_view_images and its progress file, run after run *)

all_images == [i \in 1..MaxImages |-> i]

Range(f) == {f[i] : i \in DOMAIN f}

load_progress(file) ==
    IF file.state = "valid" THEN file.processed_images ELSE <<>>

remaining(processed_images) ==
    SelectSeq(all_images, LAMBDA image : image \notin Range(processed_images))

SaveOutcomes == {"saved", "not opened", "cut short"}

mark_as_processed(file, processed_images, image, save) ==
    LET appended == Append(processed_images, image)
    IN  [progress |-> appended,
         file |-> CASE save = "saved" -> [state |-> "valid", processed_images |-> appended]
                    [] save = "not opened" -> file
                    [] OTHER -> [state |-> "invalid", processed_images |-> <<>>]]

Recorded(file) ==
    IF file.state = "valid" THEN Range(file.processed_images) ELSE {}

ImageOutcomes == {"processed", "no panoid", "error"}

ImgInit ==
    /\ to_insert = <<>>
    /\ panoids = <<>>
    /\ op = OpNone
    /\ txn = <<>>
    /\ CtlIdle
    /\ ImgIdle

ImgLeft ==
    /\ running' = FALSE
    /\ progress' = <<>>
    /\ remaining_images' = <<>>

ImgStart ==
    /\ ~running
    /\ \E startup \in {"ready", "no model", "no database"} :
        LET loaded == load_progress(progress_file)
        IN  IF startup = "ready" /\ remaining(loaded) # <<>>
            THEN /\ running' = TRUE
                 /\ progress' = loaded
                 /\ remaining_images' = remaining(loaded)
            ELSE ImgLeft
    /\ seen' = [seen EXCEPT !.image = NoImage, !.outcome = "none"]
    /\ UNCHANGED <<progress_file, storeVars, op, txn, ctlVars>>

ImgProcess ==
    /\ running
    /\ \E outcome \in ImageOutcomes, save \in SaveOutcomes :
        LET image == Head(remaining_images)
            m == mark_as_processed(progress_file, progress, image, save)
        IN  /\ progress_file' = m.file
            /\ seen' = [recorded |-> seen.recorded \cup Recorded(m.file),
                        image |-> image, outcome |-> outcome]
            /\ IF Tail(remaining_images) # <<>>
               THEN /\ running' = TRUE
                    /\ progress' = m.progress
                    /\ remaining_images' = Tail(remaining_images)
               ELSE ImgLeft
    /\ UNCHANGED <<storeVars, op, txn, ctlVars>>

ImgInterrupt ==
    /\ running
    /\ \E at \in {"between images", "before mark", "in save"} :
        LET image == Head(remaining_images)
        IN  /\ progress_file' = IF at = "in save"
                                THEN [state |-> "invalid", processed_images |-> <<>>]
                                ELSE progress_file
            /\ seen' = [seen EXCEPT !.image = IF at = "between images" THEN NoImage
                                               ELSE image,
                                    !.outcome = "interrupted"]
    /\ ImgLeft
    /\ UNCHANGED <<storeVars, op, txn, ctlVars>>

reset_progress ==
    /\ ~running
    /\ progress_file' = NoProgressFile
    /\ seen' = [recorded |-> {}, image |-> NoImage, outcome |-> "none"]
    /\ UNCHANGED <<progress, remaining_images, running, storeVars, op, txn, ctlVars>>

ImgNext ==
    \/ ImgStart
    \/ ImgProcess
    \/ ImgInterrupt
    \/ reset_progress

SpecImages == ImgInit /\ [][ImgNext]_vars

-----------------------------------------------------------------------------
(* Observations shared by the properties of the store operations *)

DedupRadius == PruneRadius

\* A row of panoids lies within r metres of (lat, long)
ExistsNear(pan, lat, long, r) ==
    \E i \in 1..Len(pan) :
        ST_DWithin(pan[i].latitude, pan[i].longitude, lat, long, r)

\* Row i of the frontier ti is a candidate within r metres of (lat, long)
CandidateWithin(ti, i, lat, long, r) ==
    ST_DWithin(ti[i].latitude, ti[i].longitude, lat, long, r)

\* The frontier ti without its row k
WithoutRow(ti, k) ==
    [i \in 1..(Len(ti) - 1) |-> IF i < k THEN ti[i] ELSE ti[i + 1]]

\* o records an insert_db call that got as far as its prune step with
\* parsed coordinates
PruneRan(o) ==
    o.name = "commit" /\ o.fault # "connect" /\ o.lat # None /\ o.long # None

-----------------------------------------------------------------------------
(* C1 *)

\* C1 (as claimed): whatever insert_db calls set_url and the crawl loop
\* have made, no two rows of panoids lie within DedupRadius of each other;
\* a position already stored is not stored a second time.
C1_NoTwoVisitedWithinRadius ==
    \A i, j \in 1..Len(panoids) :
        i # j => ~ST_DWithin(panoids[i].latitude, panoids[i].longitude,
                             panoids[j].latitude, panoids[j].longitude, DedupRadius)

-----------------------------------------------------------------------------
(* C2 *)

\* C2 (as claimed): a commit with no storage fault is accepted if and only
\* if no stored visited node lies within DedupRadius of its position; a
\* rejected commit stores nothing and an accepted one stores exactly one
\* new node.
C2_CommitIffNoneNear ==
    [][(op'.name = "commit" /\ op'.fault = "none" /\ op'.lat # None)
        => IF ExistsNear(panoids, op'.lat, op'.long, DedupRadius)
           THEN op'.ret = "False" /\ panoids' = panoids
           ELSE op'.ret = "True" /\ Len(panoids') = Len(panoids) + 1]_vars

-----------------------------------------------------------------------------
(* C3 *)

\* C3 (as claimed): when two sessions each commit the same position, or two
\* positions within DedupRadius of each other, at most one of the two
\* commits is accepted, and at most one visited node results.
C3_AtMostOneAccepted ==
    \A s, t \in Sessions :
        (/\ s # t
         /\ txn[s].pc = "returned"
         /\ txn[t].pc = "returned"
         /\ ST_DWithin(txn[s].latitude, txn[s].longitude,
                       txn[t].latitude, txn[t].longitude, DedupRadius))
            => /\ ~(txn[s].ret = "True" /\ txn[t].ret = "True")
               /\ Len(panoids) <= 1

-----------------------------------------------------------------------------
(* C4 *)

\* C4 (as claimed): a PopOne that returns a candidate removes it: the
\* frontier afterwards is the frontier before without the returned row.
C4_PopRemoves ==
    [][(op'.name = "pop" /\ op'.ret = "ok")
        => to_insert' = WithoutRow(to_insert, op'.k)]_vars

-----------------------------------------------------------------------------
(* C5 *)

\* C5 (as claimed): PopOne returns the earliest-inserted candidate still in
\* the frontier (the first row in insertion order), and two successive pops
\* with nothing in between return successive candidates of the insertion
\* order.
C5_PopEarliestInserted ==
    [][(op'.name = "pop" /\ op'.ret = "ok")
        => /\ op'.k = 1
           /\ (op.name = "pop" /\ op.ret = "ok"
                  => to_insert[op'.k] = WithoutRow(to_insert, op.k)[1])]_vars

-----------------------------------------------------------------------------
(* C6 *)

\* C6 (as claimed): with an empty frontier, a pass of the crawl loop that
\* needs a seed ends the session: the only passes that stay in the loop are
\* those that made no reseed.  (A reseed that stays in the loop leaves move
\* unset, every other pass that stays in the loop leaves it set.)
C6_ExhaustionEndsSession ==
    [][(pc = "loop" /\ to_insert = <<>> /\ pc' = "loop") => move']_vars

-----------------------------------------------------------------------------
(* C7 *)

-----------------------------------------------------------------------------
(* C8 *)

\* C8 (as claimed): after the prune step of insert_db has run for position
\* p, no frontier candidate within PruneRadius of p remains, and every
\* candidate farther away is still there.
C8_PruneRemovesAllNear ==
    [][PruneRan(op')
        => /\ \A i \in 1..Len(to_insert') :
                ~CandidateWithin(to_insert', i, op'.lat, op'.long, PruneRadius)
           /\ to_insert' =
                SelectSeq(to_insert,
                          LAMBDA c : ~ST_DWithin(c.latitude, c.longitude,
                                                 op'.lat, op'.long, PruneRadius))]_vars

\* C8 (amended): the prune step removes only the candidate nearest to p
\* among those within PruneRadius of p whose geom is set, together with the
\* candidates at exactly its coordinates: one of the nearest such
\* candidates is gone, every removed row has the same coordinates, and
\* every other candidate (farther than PruneRadius, without geom, or within
\* PruneRadius but not the nearest) is still in the frontier in its place.
C8_PruneRemovesNearest ==
    [][PruneRan(op')
        => LET near == {i \in 1..Len(to_insert) :
                            /\ to_insert[i].geom
                            /\ CandidateWithin(to_insert, i, op'.lat, op'.long, PruneRadius)}
               d(i) == KnnDistance(to_insert[i].latitude, to_insert[i].longitude,
                                   op'.lat, op'.long)
           IN  IF near = {}
               THEN to_insert' = to_insert
               ELSE \E n \in near :
                        /\ \A j \in near : d(n) <= d(j)
                        /\ to_insert' =
                             SelectSeq(to_insert,
                                       LAMBDA c : <<c.latitude, c.longitude>>
                                           # <<to_insert[n].latitude, to_insert[n].longitude>>)]_vars

\* C8 witness: a prune step removed a candidate and left another candidate
\* within PruneRadius of the committed position in the frontier.
C8_Witness ==
    /\ PruneRan(op)
    /\ op.removed > 0
    /\ \E i \in 1..Len(to_insert) :
            to_insert[i].geom /\ CandidateWithin(to_insert, i, op.lat, op.long, PruneRadius)

-----------------------------------------------------------------------------
(* C9 *)

\* The operation recorded in o2 repeats the prune of o1: same position, both
\* prune steps ran, nothing in between.
SamePruneTwice(o1, o2) ==
    PruneRan(o1) /\ PruneRan(o2) /\ o1.lat = o2.lat /\ o1.long = o2.long

\* C9 (as claimed): of two successive prunes for the same position the
\* second removes nothing and leaves the frontier unchanged.
C9_SecondPruneRemovesNothing ==
    [][SamePruneTwice(op, op') => op'.removed = 0 /\ to_insert' = to_insert]_vars

\* C9 (amended): of two successive prunes for the same position the second
\* removes nothing and leaves the frontier unchanged exactly when the first
\* left no candidate with geom within PruneRadius of the position; this is
\* so whenever the first itself removed nothing.
C9_SecondPruneAtFixpoint ==
    [][SamePruneTwice(op, op')
        => LET left == \E i \in 1..Len(to_insert) :
                            /\ to_insert[i].geom
                            /\ CandidateWithin(to_insert, i, op'.lat, op'.long, PruneRadius)
           IN  /\ (op'.removed = 0) <=> ~left
               /\ (to_insert' = to_insert) <=> ~left
               /\ op.removed = 0 => ~left]_vars

\* C9 witness: the second of two successive prunes for one position removed
\* nothing, after the first had removed a candidate.
C9_Witness ==
    /\ PruneRan(op)
    /\ op.again
    /\ op.before > 0
    /\ op.removed = 0

-----------------------------------------------------------------------------
(* C10 *)

\* C10 (as claimed): a commit that is not accepted leaves the frontier
\* unchanged: candidates are pruned for a position only if a visited node
\* for it was stored.
C10_PruneOnlyIfStored ==
    (op.name = "commit" /\ op.ret # "True") => op.removed = 0

-----------------------------------------------------------------------------
(* C11 *)

\* The pass just made found insert_db returning False
Rejected(msg) ==
    msg \in {"already seen or db problem", "too much fail aborting trying new url"}

\* C11: the third rejected insert in a row (chained_fail is 2 before it)
\* takes the "too much fail" branch: a reseed is made (get_starting_coordinates,
\* set_url), and unless set_url raises, the loop goes on with the counters
\* reset by the reseed and keytopress flipped once, ARROW_UP to ARROW_DOWN or
\* ARROW_DOWN to ARROW_UP.
C11_ThirdRejectionReseedsAndFlips ==
    [][(pc = "loop" /\ chained_fail = 2 /\ Rejected(said'))
        => /\ said' = "too much fail aborting trying new url"
           /\ pc' = "loop"
                => /\ ~move'
                   /\ chained_fail' = 0
                   /\ old_lat_long' = Placeholder
                   /\ keytopress' # keytopress
                   /\ keytopress' \in {ARROW_UP, ARROW_DOWN}]_vars

\* C11 witness: the loop goes on after a "too much fail" reseed, with the
\* key flipped to ARROW_DOWN.
C11_Witness ==
    /\ pc = "loop"
    /\ said = "too much fail aborting trying new url"
    /\ keytopress = ARROW_DOWN

-----------------------------------------------------------------------------
(* C12 *)

\* C12 (as claimed): every reseed made for a stall ("cannot go forward") or
\* for a position outside the perimeter ("Leaving Nancy and setup
\* perimeter") flips keytopress: after it the key differs from the key
\* used before.
C12_StallAndOutOfBoundsFlip ==
    [][(/\ pc = "loop"
        /\ pc' = "loop"
        /\ said' \in {"cannot go forward", "Leaving Nancy and setup perimeter"})
        => keytopress' # keytopress]_vars

-----------------------------------------------------------------------------
(* C13 *)

\* Squared coordinate distance between two points
SquaredDistance(lat1, long1, lat2, long2) ==
    (lat1 - lat2) * (lat1 - lat2) + (long1 - long2) * (long1 - long2)

\* C13: in_nancy(p) is true exactly when the squared coordinate distance
\* from p to the centre is at most the squared coordinate distance from
\* the boundary point to the centre; so the centre and the boundary point
\* are contained and a point twice as far away as the boundary point is not.
C13_GeofenceContains ==
    op.name = "in_nancy"
        => LET d2 == SquaredDistance(op.lat, op.long, latcenter_nancy, longcenter_nancy)
               r2 == SquaredDistance(latboundary_nancy, longboundary_nancy,
                                     latcenter_nancy, longcenter_nancy)
           IN  /\ (op.ret = "True") <=> (d2 <= r2)
               /\ op.ret \in {"True", "False"}
               /\ (op.lat = latcenter_nancy /\ op.long = longcenter_nancy)
                      => op.ret = "True"
               /\ (op.lat = latboundary_nancy /\ op.long = longboundary_nancy)
                      => op.ret = "True"
               /\ (/\ op.lat = 2 * latboundary_nancy - latcenter_nancy
                   /\ op.long = 2 * longboundary_nancy - longcenter_nancy)
                      => op.ret = "False"

\* C13 witness: in_nancy was applied to the boundary point and answered
\* True.
C13_Witness ==
    /\ op.name = "in_nancy"
    /\ op.lat = latboundary_nancy
    /\ op.long = longboundary_nancy
    /\ op.ret = "True"

-----------------------------------------------------------------------------
(* C14 *)

\* C14 (as claimed): run_streetview_downloader_single is called once per
\* stored visited node and only for stored nodes: every pano id handed to
\* it is the pano id of a row of panoids, and no pano id is handed to it
\* twice.
C14_DownloadedOncePerNode ==
    /\ \A i \in 1..Len(downloads) :
            \E j \in 1..Len(panoids) : panoids[j].pano_id = downloads[i]
    /\ \A i, j \in 1..Len(downloads) : i # j => downloads[i] # downloads[j]

-----------------------------------------------------------------------------
(* C15 *)

\* C15 (as claimed): a pass whose position or pano id cannot be parsed
\* does not end the session: the fault is counted in chained_fail or
\* answered by a reseed, and the loop goes on.
C15_ParseFaultAbsorbed ==
    [][(pc = "loop" /\ said' = "Parsing url problem")
        => /\ pc' = "loop"
           /\ chained_fail' = chained_fail + 1 \/ ~move']_vars

-----------------------------------------------------------------------------
(* C16 *)

\* C16 (as claimed): insert_db reports a storage fault by a value of its
\* own, different from the value False by which it reports a rejected
\* commit and from the value True of an accepted one.
C16_FaultDistinctFromRejection ==
    (op.name = "commit" /\ op.fault # "none" /\ op.lat # None)
        => op.ret \notin {"True", "False"}

-----------------------------------------------------------------------------
(* C17 *)

\* C17 (as claimed): a call with dry_run=True that meets no storage fault
\* leaves to_insert unchanged and returns the number of rows the same call
\* with dry_run=False would delete: the number of candidates within
\* distance_threshold_m of some visited node.
C17_DryRunReturnsCount ==
    (/\ op.name = "delete_close_points_from_to_insert"
     /\ op.dry_run
     /\ ~op.fault)
        => /\ to_insert = op.before
           /\ op.ret = delete_close_points_from_to_insert(
                           op.before, panoids, op.distance_threshold_m, FALSE, FALSE).ret
           /\ op.ret = Cardinality(CloseRows(op.before, panoids, op.distance_threshold_m))

-----------------------------------------------------------------------------
(* C18 *)

\* C18 (as claimed): over runs of process_street_view_images with no
\* reset_progress in between, interrupted runs included, an image the progress
\* file has recorded as processed is never handled again by a later run.
C18_RecordedNeverProcessedAgain ==
    [][(running /\ seen'.image # NoImage) => seen'.image \notin seen.recorded]_vars

-----------------------------------------------------------------------------
(* C19 *)

\* C19: a rejected insert that is the first or the second in a row adds
\* one to chained_fail, leaves old_lat_long, keytopress and url as they are
\* (no call of get_starting_coordinates, no set_url), does not count as an
\* iteration and goes on with the loop, where the next pass presses the key.
C19_RejectionBelowThreshold ==
    [][(pc = "loop" /\ chained_fail < 2 /\ Rejected(said'))
        => /\ said' = "already seen or db problem"
           /\ chained_fail' = chained_fail + 1
           /\ old_lat_long' = old_lat_long
           /\ keytopress' = keytopress
           /\ url' = url
           /\ panoids' = panoids
           /\ downloads' = downloads
           /\ pc' = "loop"
           /\ move']_vars

\* C19 witness: the second rejected insert in a row has been counted and
\* the loop goes on.
C19_Witness ==
    /\ pc = "loop"
    /\ said = "already seen or db problem"
    /\ chained_fail = 2

-----------------------------------------------------------------------------
(* C20 *)

\* C20: an insert accepted in the loop (lines 456-460) stores one row,
\* resets chained_fail to 0, sets old_lat_long to the position just stored,
\* which the next pass compares its position with, leaves keytopress as it
\* is and goes on with the loop.
C20_AcceptedCommit ==
    [][(pc = "loop" /\ said' = "Successfully inserted record")
        => /\ Len(panoids') = Len(panoids) + 1
           /\ old_lat_long' = <<panoids'[Len(panoids')].latitude,
                                panoids'[Len(panoids')].longitude>>
           /\ chained_fail' = 0
           /\ keytopress' = keytopress
           /\ pc' = "loop"
           /\ move']_vars

\* C20 witness: the loop has just stored a second visited node, at PosB,
\* and goes on from there.
C20_Witness ==
    /\ pc = "loop"
    /\ said = "Successfully inserted record"
    /\ chained_fail = 0
    /\ old_lat_long = PosB
    /\ Len(panoids) = 2

-----------------------------------------------------------------------------
(* C21 *)

\* C21 (as claimed): every pass of the loop that ends in a stall reseed, an
\* out-of-perimeter reseed, a rejected insert (below or at the threshold) or
\* an accepted insert, and goes on with the loop, adds at least one to iter.
C21_EveryPassIncrementsIter ==
    [][(/\ pc = "loop"
        /\ pc' = "loop"
        /\ said' \in {"cannot go forward", "Leaving Nancy and setup perimeter",
                      "already seen or db problem",
                      "too much fail aborting trying new url",
                      "Successfully inserted record"})
        => iter' >= iter + 1]_vars

-----------------------------------------------------------------------------
(* C22 *)

\* C22: while the session runs iter never decreases, and right after any
\* reseed that leaves the session running (at the start, on a stall, out of
\* the perimeter or at the failure threshold: the passes that end with move
\* False) chained_fail is 0.
C22_ReseedKeepsIterClearsFailures ==
    [][(pc \in {"init", "loop"} /\ pc' = "loop")
        => /\ iter' >= iter
           /\ ~move' => chained_fail' = 0]_vars

\* C22 witness: a stall reseed made after an earlier pass had counted an
\* iteration: iter is 2 and chained_fail is 0.
C22_Witness ==
    /\ pc = "loop"
    /\ ~move
    /\ said = "cannot go forward"
    /\ iter = 2
    /\ chained_fail = 0

-----------------------------------------------------------------------------
(* C23 *)

\* The current position as the claim has it: the position of the last
\* accepted insert, and after a reseed the position of the candidate the
\* browser was initialised at.
ClaimedCurrentPosition ==
    IF old_lat_long = Placeholder THEN url ELSE old_lat_long

\* C23 (as claimed): a report whose position equals the current position is
\* a stall and is never handed to insert_db, the first report after a reseed
\* included, where the current position is that of the popped candidate.
C23_NoCommitWithoutMovement ==
    [][(/\ pc = "loop"
        /\ said' \in {"already seen or db problem", "Successfully inserted record"})
        => <<current_url'[1], current_url'[2]>> # ClaimedCurrentPosition]_vars

-----------------------------------------------------------------------------
(* C24 *)

-----------------------------------------------------------------------------
(* C25 *)

\* C25: the end of the loop is final.  A pass that prints "Parsing url
\* problem" or "Browser interaction failed" leaves the loop without touching
\* to_insert, panoids or the downloads, and once selenium_walkthrough has
\* left the loop no step changes to_insert, panoids or the downloads or
\* brings the loop back.
C25_TerminalAbsorbing ==
    [][/\ (/\ pc = "loop"
           /\ said' \in {"Parsing url problem",
                         "Browser interaction failed (browser might be closed)"})
            => /\ pc' = "done"
               /\ to_insert' = to_insert /\ panoids' = panoids /\ downloads' = downloads
       /\ pc = "done"
            => /\ pc' = "done"
               /\ to_insert' = to_insert /\ panoids' = panoids /\ downloads' = downloads]_vars

\* C25 witness: the session has ended on a closed browser after it had
\* stored a visited node, with candidates left in to_insert.
C25_Witness ==
    /\ pc = "done"
    /\ said = "Browser interaction failed (browser might be closed)"
    /\ Len(panoids) >= 1
    /\ Len(to_insert) >= 1

-----------------------------------------------------------------------------
(* C26 *)

\* C26 (as claimed): every row of panoids stored during a session lies
\* inside the perimeter, whether the loop stored it or set_url did for the
\* position it landed at.
C26_VisitedInsideNancy ==
    \A i \in 1..Len(panoids) : in_nancy(panoids[i].latitude, panoids[i].longitude)

-----------------------------------------------------------------------------
(* C27 *)

\* C27 (as claimed): every row of panoids stored during a session has a
\* pano id and a position: what parse_google_maps_url could not parse is
\* never stored, neither by the loop nor by set_url.
C27_VisitedHasPanoAndPosition ==
    \A i \in 1..Len(panoids) :
        /\ panoids[i].pano_id # None
        /\ panoids[i].latitude # None
        /\ panoids[i].longitude # None

-----------------------------------------------------------------------------
(* C28 *)

\* C28: whenever a pass of the loop begins chained_fail is 0, 1 or 2: the
\* third rejection in a row reseeds and set_url hands back 0 before the next
\* pass.
C28_ChainedFailBounded ==
    pc = "loop" => chained_fail \in {0, 1, 2}

\* C28 witness: the threshold reseed has been made, the loop goes on and
\* chained_fail is 0 again.
C28_Witness ==
    /\ pc = "loop"
    /\ said = "too much fail aborting trying new url"
    /\ ~move
    /\ iter >= 1
    /\ chained_fail = 0

-----------------------------------------------------------------------------
(* C29 *)

\* C29 (as claimed): every reseed made in the loop (a pass that ends with
\* move False and the loop going on) takes at least one candidate out of
\* to_insert, so that reseeds cannot go on forever from the same candidate
\* and an empty to_insert ends the session.
C29_ReseedConsumesCandidate ==
    [][(pc = "loop" /\ pc' = "loop" /\ ~move')
        => Len(to_insert') < Len(to_insert)]_vars

====
